---- MODULE Spec2Model ----
(***************************************************************************)
(* Crawl orchestration of the MedEasy / MedEx scrapers: the start / stop   *)
(* endpoints of the three API variants, scrape_all_medicines with its      *)
(* checkpoint (resume_data) and progress row, scrape_medicine_page and the *)
(* product upsert save_medicine_to_db.                                     *)
(*                                                                         *)
(* Scheduling.  In the MedEasy variants a crawl run is an asyncio          *)
(* background task of the API process: it gives up control only at the    *)
(* awaited page fetches, so everything between two fetches is one         *)
(* uninterrupted section with respect to the API handlers and to other    *)
(* runs.  In the MedEx variant a run is a thread, and every step may      *)
(* interleave with every other.  A process kill may strike between any    *)
(* two steps in all variants.                                             *)
(***************************************************************************)
EXTENDS Integers, Sequences, FiniteSets, TLC

\* ---------------------------------------------------------------- bounds
NumUrls == 2          \* product URLs the site lists
MaxRuns == 2          \* scrape_all_medicines invocations in one behaviour
MaxSeed == 1          \* per-process string-hash salts are 0..MaxSeed
MaxPrice == 1         \* prices a page may show are 1..MaxPrice
MaxKills == 1         \* process kills in one behaviour
MaxInFlight == 2      \* runs in flight when a client calls start
MaxStops == 1         \* acknowledged stop calls in one behaviour
MaxImage == 2         \* processed image payloads are 1..MaxImage
MaxUrlLen == 5        \* characters of an image URL handed to the resolver
MaxTextLen == 4       \* characters of a price text handed to extract_price

\* ------------------------------------------------------ program constants
HashModulus == 1000000
NumCategories == 14

Variants == {"medeasy", "medeasy_local", "medex"}
Urls == 1..NumUrls
RunIds == 1..MaxRuns
Seeds == 0..MaxSeed
NULL == 0             \* SQL NULL / Python None
Absent == -1          \* a key the extracted dict does not have

TaskName(v) ==
    CASE v = "medeasy" -> "medeasy_scraper"
      [] v = "medeasy_local" -> "medeasy_scraper_local"
      [] v = "medex" -> "medex_scraper"

Threaded(v) == v = "medex"

VARIABLES
    variant,          \* which API / scraper pair is deployed
    progress,         \* scraping_progress rows of the task, in id order
    medicines,        \* medicines table: a set of rows
    runs,             \* RunIds -> state of one scrape_all_medicines call
    nextRun,          \* number of runs created so far
    scraper_running,  \* main_medex.py global flag
    hashSeed,         \* string-hash salt of the current process
    kills,            \* process kills so far
    reply,            \* HTTP response produced by the step (op "none": no API call)
    log_out,          \* log entries emitted by the step
    stops,            \* acknowledged stop calls so far
    stopMark,         \* history: the stop acknowledged last and the start after it
    images,           \* medicine_images table: a set of rows
    pure,             \* a call of a helper function: name, argument, result
    discovery,        \* position of discover_medicine_urls in its page loop
    writers           \* database sessions inside update_progress / save_resume_data

vars == <<variant, progress, medicines, runs, nextRun, scraper_running,
          hashSeed, kills, reply, log_out, stops, stopMark, images, pure,
          discovery, writers>>

\* ------------------------------------------------------------ progress row
NoResume == [medicine_urls |-> <<>>, current_index |-> -1, processed_items |-> -1]

HasRow == Len(progress) > 0
\* db.query(ScrapingProgress).filter_by(task_name=...).first()
FirstRow == progress[1]
Status == IF HasRow THEN FirstRow.status ELSE "not_started"
ResumeData == IF HasRow THEN FirstRow.resume_data ELSE NoResume

NewProgressRow ==
    [task_name |-> TaskName(variant), current_page |-> 1, total_pages |-> 0,
     processed_items |-> 0, total_items |-> 0, status |-> "running",
     error_message |-> NULL, resume_data |-> NoResume]

\* update_progress: query the first row of the task, add one when there is
\* none, set the five columns, commit.
update_progress(tbl, cp, tp, pi, ti, st) ==
    LET t == IF Len(tbl) = 0 THEN <<NewProgressRow>> ELSE tbl
    IN  [t EXCEPT ![1] = [@ EXCEPT !.current_page = cp, !.total_pages = tp,
                                   !.processed_items = pi, !.total_items = ti,
                                   !.status = st]]

\* save_resume_data: same lookup, sets only the resume_data column.
save_resume_data(tbl, rd) ==
    LET t == IF Len(tbl) = 0 THEN <<NewProgressRow>> ELSE tbl
    IN  [t EXCEPT ![1] = [@ EXCEPT !.resume_data = rd]]

\* get_resume_data: the blob of the first row, None when the row or the blob
\* is missing.
ForgetResume(tbl) == NoResume
get_resume_data(tbl) ==
    IF Len(tbl) > 0 /\ tbl[1].resume_data # NoResume THEN tbl[1].resume_data
    ELSE NoResume

\* total_pages argument of update_progress: 1 in MedEasy, self.total_pages
\* (822) in MedEx.
MedexTotalPages == 822
TotalPages(v) == IF v = "medex" THEN MedexTotalPages ELSE 1

\* ------------------------------------------------------------- discovery
\* Category id tagged on a discovered URL (MedEx tags none).
CategoryOf(v, u) == IF v = "medex" THEN NULL ELSE ((u - 1) % NumCategories) + 1

WorkList(v, n) == [i \in 1..n |-> [url |-> i, category_id |-> CategoryOf(v, i)]]

\* discover_medicine_urls returns the entries found, or [] when nothing was
\* found or an exception was swallowed.
DiscoverResults(v) == {WorkList(v, n) : n \in {0, NumUrls}}

\* The links of a listing page are de-duplicated, the list over all pages
\* and categories is not: a product listed once more under the last
\* category (MedEx: on a later page) is in the list twice.
CrossListed(v, n) ==
    WorkList(v, n) \o
    <<[url |-> 1, category_id |-> IF v = "medex" THEN NULL ELSE NumCategories]>>
ListingResults(v) == DiscoverResults(v) \cup {CrossListed(v, NumUrls)}

\* ------------------------------------------------------------ extraction
\* Whether the product page of a URL carries a SKU element.
HasSku(u) == u % 2 = 1

\* Python's hash() of a str is salted per process.
PyHash(seed, u) == seed * (NumUrls + 1) + u

CodePrefix(v) == IF v = "medex" THEN "MX" ELSE "ME"

\* product_code: the scraped SKU, else PREFIX_{hash(url) % 1000000}.
ProductCode(v, seed, u) ==
    IF HasSku(u) THEN <<"SKU", u>>
    ELSE <<CodePrefix(v), PyHash(seed, u) % HashModulus>>

\* The 'price' key after extraction: a price found, or no key.  MedEasy-local
\* also sets the key to None, when the JSON-LD offers block has no price and
\* no HTML element shows one.
PriceFound(v) ==
    (1..MaxPrice) \cup {Absent} \cup (IF v = "medeasy_local" THEN {NULL} ELSE {})

\* What a fetched page shows: whether a name is found, the price key,
\* whether extract_image_url finds an image URL, and what
\* process_medicine_image makes of it (NULL: download or decoding failed).
\* Pages are the pages without an image, PagesWithImage all of them.
Pages(v) == [name : BOOLEAN, price : PriceFound(v),
             image_url : {FALSE}, image_data : {NULL}]
PagesWithImage(v) ==
    {p \in [name : BOOLEAN, price : PriceFound(v),
            image_url : BOOLEAN, image_data : 0..MaxImage] :
        p.image_url \/ p.image_data = NULL}

\* extract_medicine_data: a key is set only when its element is found;
\* category_id only when the work-list entry carries one.  url is the
\* argument of scrape_medicine_page, kept beside the dict.
extract_medicine_data(v, seed, entry, page) ==
    [url |-> entry.url,
     name |-> IF page.name THEN entry.url ELSE NULL,
     price |-> page.price,
     category_id |-> IF entry.category_id = NULL THEN Absent ELSE entry.category_id,
     product_code |-> ProductCode(v, seed, entry.url)]

NoItem == [url |-> NULL, name |-> NULL, price |-> NULL, category_id |-> NULL,
           product_code |-> <<"", 0>>, existing |-> NULL,
           image_url |-> FALSE, image_data |-> NULL]

\* ----------------------------------------------------------------- upsert
\* db.query(Medicine).filter_by(product_code=...).first(): id of the row, or
\* NULL.
FindByCode(tbl, code) ==
    IF \E m \in tbl : m.product_code = code
    THEN (CHOOSE m \in tbl : m.product_code = code
                             /\ \A o \in tbl : o.product_code = code => m.id <= o.id).id
    ELSE NULL

\* unique=True on Medicine.product_code: the flush of an insert fails when a
\* row with the code is there.
NoUniqueConstraint(tbl, code) == FALSE
UniqueViolation(tbl, code) == \E m \in tbl : m.product_code = code

\* for key, value in medicine_data.items(): setattr(existing, key, value)
\* sets the keys the extraction produced and leaves the other columns.
\* The url of a row is history, not a column: the page the row was last
\* written from.
UpdateKeepsOld(row, d) ==
    [row EXCEPT !.name = d.name, !.url = d.url]
UpdateRow(row, d) ==
    [row EXCEPT !.name = d.name,
                !.price = IF d.price # Absent THEN d.price ELSE @,
                !.category_id = IF d.category_id # Absent THEN d.category_id ELSE @,
                !.url = d.url]

\* A column of a new row: the value of the key, NULL without a key.
Column(x) == IF x = Absent THEN NULL ELSE x

\* Medicine(**model_fields): columns without a key are NULL.
InsertRow(tbl, d) ==
    [id |-> Cardinality(tbl) + 1, product_code |-> d.product_code,
     name |-> d.name, price |-> Column(d.price),
     category_id |-> Column(d.category_id), url |-> d.url]

\* db.query(MedicineImage).filter_by(medicine_id=...).first()
FindImage(tbl, mid) ==
    IF \E i \in tbl : i.medicine_id = mid
    THEN (CHOOSE i \in tbl : i.medicine_id = mid
                             /\ \A o \in tbl : o.medicine_id = mid => i.id <= o.id).id
    ELSE NULL

\* The image block of save_medicine_to_db: update the image row of the
\* product, or add one.
InsertImage(tbl, mid, data) ==
    tbl \cup {[id |-> Cardinality(tbl) + 1, medicine_id |-> mid,
               image_data |-> data]}
UpsertImage(tbl, mid, data) ==
    IF FindImage(tbl, mid) # NULL
    THEN {IF i.id = FindImage(tbl, mid) THEN [i EXCEPT !.image_data = data] ELSE i
          : i \in tbl}
    ELSE tbl \cup {[id |-> Cardinality(tbl) + 1, medicine_id |-> mid,
                    image_data |-> data]}

\* ------------------------------------------------------------------ runs
\* resume is the argument of the call, read once by Begin and cleared;
\* first is current_index, the cursor the loop started from; ckpt is
\* history: the cursor of the stored checkpoint when the run was killed;
\* skipped is history: the items of the call that ended without a commit.
IdleRun == [pc |-> "idle", via |-> "none", resume |-> FALSE, urls |-> <<>>,
            first |-> 0, idx |-> 0, processed |-> 0, success |-> FALSE,
            item |-> NoItem, ckpt |-> -1, skipped |-> 0]

\* The call has returned, or its process is gone: the locals of the call
\* are gone; what is kept (via, first, ckpt) is history.
Ended(run, pc) ==
    [IdleRun EXCEPT !.pc = pc, !.via = run.via, !.first = run.first]

InFlightPcs == {"scheduled", "discovering", "fetching", "saving", "saved"}
InFlight(r) == runs[r].pc \in InFlightPcs

\* A run is suspended at an await: not yet started, inside discovery, or
\* waiting for the page of item idx.
Suspended(r) ==
    \/ runs[r].pc \in {"idle", "scheduled", "discovering", "done", "killed"}
    \/ runs[r].pc = "fetching" /\ runs[r].idx < Len(runs[r].urls)

\* The event loop runs one task at a time between awaits.
MayStep(r) == Threaded(variant) \/ \A o \in RunIds \ {r} : Suspended(o)
MayHandle == Threaded(variant) \/ \A o \in RunIds : Suspended(o)

NoReply == [op |-> "none", code |-> 0]
\* A call of a helper: None is Python's None, Some(v) a returned value.
None == [none |-> TRUE, val |-> <<>>]
Some(v) == [none |-> FALSE, val |-> v]
NoCall == [fn |-> "none", arg |-> <<>>, ret |-> None]
\* The listing loop of discovery is followed only where it is the subject.
NoDiscovery == [pc |-> "none", cat |-> 0, page |-> 0, fetched |-> 0]
\* sink "db": log_scraping_event (a scraping_logs row, after the same line
\* went to the log file); sink "file": a loguru call only.  Of the INFO
\* lines only those that tell outcomes apart are kept.
LogEntry(sink, level, msg, url) ==
    [sink |-> sink, level |-> level, msg |-> msg, url |-> url]
\* stopMark is history: "acked" from the acknowledgement of a stop of a
\* running crawl to the next start call that counts; "accepted" /
\* "rejected" once a start(resume=true) that followed the stop was answered.
NoStop == "none"

\* A session that is not inside a call.
NoSession == [pc |-> "idle", op |-> "none", found |-> FALSE, calls |-> 0]
NoWriters == [w \in RunIds |-> NoSession]

Init ==
    /\ variant \in Variants
    /\ progress = <<>>
    /\ medicines = {}
    /\ runs = [r \in RunIds |-> IdleRun]
    /\ nextRun = 0
    /\ scraper_running = FALSE
    /\ hashSeed = 0
    /\ kills = 0
    /\ reply = NoReply
    /\ log_out = <<>>
    /\ stops = 0
    /\ stopMark = NoStop
    /\ images = {}
    /\ pure = NoCall
    /\ discovery = NoDiscovery
    /\ writers = NoWriters

\* ------------------------------------------------------------ API: start
\* The test of start_scraping (status == "running") and of start_scraper
\* (the scraper_running flag).
NeverRejected(v, status, flag) == FALSE
StartRejected(v, status, flag) ==
    IF v = "medex" THEN flag ELSE status = "running"

\* The 400 raised inside start_scraping's try block is caught by its own
\* except clause and re-raised as a 500; start_scraper raises its 400
\* before the try block.
RejectCode(v) == IF v = "medex" THEN 400 ELSE 500

NewRun(resume, via) ==
    [IdleRun EXCEPT !.pc = "scheduled", !.via = via, !.resume = resume]

StartCrawl(resume) ==
    /\ MayHandle
    /\ IF StartRejected(variant, Status, scraper_running)
       THEN /\ reply' = [op |-> "start", code |-> RejectCode(variant)]
            /\ log_out' = <<>>
            /\ stopMark' = IF stopMark = "acked" /\ resume
                           THEN "rejected" ELSE stopMark
            /\ UNCHANGED <<runs, nextRun>>
       ELSE /\ nextRun < MaxRuns
            /\ Cardinality({r \in RunIds : InFlight(r)}) < MaxInFlight
            /\ nextRun' = nextRun + 1
            /\ runs' = [runs EXCEPT ![nextRun + 1] = NewRun(resume, "api")]
            /\ reply' = [op |-> "start", code |-> 200]
            /\ log_out' = <<>>
            /\ stopMark' = IF stopMark = "acked" /\ resume
                           THEN "accepted" ELSE NoStop
    /\ UNCHANGED <<variant, discovery, writers, images, pure, progress, medicines, scraper_running, hashSeed, kills, stops>>

\* ------------------------------------------------------------- API: stop
InLoop(r) == runs[r].pc \in {"fetching", "saving", "saved"}

MarkStopped == "acked"

CrawlRunning ==
    /\ \E r \in RunIds : InFlight(r)
    /\ IF variant = "medex" THEN scraper_running ELSE Status = "running"

\* stop_scraping (MedEasy): close the global scraper, set the row's status.
StopScraping ==
    /\ variant # "medex"
    /\ MayHandle
    /\ progress' = IF HasRow
                   THEN [progress EXCEPT ![1] = [@ EXCEPT !.status = "stopped"]]
                   ELSE progress
    /\ reply' = [op |-> "stop", code |-> 200]
    /\ log_out' = <<>>
    /\ stops < MaxStops
    /\ stops' = stops + 1
    /\ stopMark' = IF CrawlRunning THEN MarkStopped ELSE stopMark
    /\ UNCHANGED <<variant, discovery, writers, images, pure, medicines, runs, nextRun, scraper_running, hashSeed, kills>>

\* stop_scraper (MedEx): only clears the flag.
StopScraper ==
    /\ variant = "medex"
    /\ IF ~scraper_running
       THEN /\ reply' = [op |-> "stop", code |-> 400]
            /\ UNCHANGED <<scraper_running, stopMark, stops>>
       ELSE /\ stops < MaxStops
            /\ stops' = stops + 1
            /\ scraper_running' = FALSE
            /\ reply' = [op |-> "stop", code |-> 200]
            /\ stopMark' = IF CrawlRunning THEN MarkStopped ELSE stopMark
    /\ log_out' = <<>>
    /\ UNCHANGED <<variant, discovery, writers, images, pure, progress, medicines, runs, nextRun, hashSeed, kills>>

\* -------------------------------------------------- launcher scripts, kill
\* scripts/run_scraper.py (resume=True), run_fresh_extraction.py
\* (resume=False), run_medex_scraper.py (--no-resume): a new process calls
\* scrape_all_medicines directly.  The operator uses them to restart a
\* crawl after the process died, and only when no run is in flight.
RunScript(resume) ==
    /\ \A r \in RunIds : ~InFlight(r)
    /\ nextRun < MaxRuns
    /\ nextRun' = nextRun + 1
    /\ runs' = [runs EXCEPT ![nextRun + 1] = NewRun(resume, "cli")]
    /\ reply' = NoReply
    /\ log_out' = <<>>
    /\ UNCHANGED <<variant, discovery, writers, images, pure, progress, medicines, scraper_running,
                   hashSeed, kills, stops, stopMark>>

\* The process dies: every run in flight is gone, the globals of the next
\* process start from their initial values, the hash salt is drawn anew.
Kill ==
    /\ kills < MaxKills
    /\ \E r \in RunIds : InFlight(r)
    /\ kills' = kills + 1
    /\ runs' = [r \in RunIds |-> IF InFlight(r)
                                 THEN [Ended(runs[r], "killed") EXCEPT
                                           !.ckpt = ResumeData.current_index]
                                 ELSE runs[r]]
    /\ scraper_running' = FALSE
    /\ hashSeed' \in Seeds
    /\ reply' = NoReply
    /\ log_out' = <<>>
    /\ UNCHANGED <<variant, discovery, writers, images, pure, progress, medicines, nextRun, stops, stopMark>>

\* ------------------------------------------------- scrape_all_medicines
\* medex run_scraper's finally clause clears the flag when the run returns.
FlagAfterReturn == IF variant = "medex" THEN FALSE ELSE scraper_running

Total(r) == Len(runs[r].urls)

\* From the call to the first await: log, load the checkpoint when
\* resume is set, and either enter the loop from the checkpoint (progress
\* row written) or start discovery.
Begin(r) ==
    /\ runs[r].pc = "scheduled"
    /\ MayStep(r)
    /\ scraper_running' = IF variant = "medex" /\ runs[r].via = "api"
                          THEN TRUE ELSE scraper_running
    /\ LET rd == IF runs[r].resume THEN get_resume_data(progress) ELSE NoResume
       IN  IF rd # NoResume
           THEN /\ runs' = [runs EXCEPT ![r] =
                     [@ EXCEPT !.pc = "fetching", !.urls = rd.medicine_urls,
                               !.first = rd.current_index, !.idx = rd.current_index,
                               !.processed = rd.processed_items, !.resume = FALSE]]
                /\ progress' = update_progress(progress, 1, TotalPages(variant),
                                   rd.processed_items, Len(rd.medicine_urls), "running")
                /\ log_out' = <<LogEntry("db", "INFO", "resuming", NULL)>>
           ELSE /\ runs' = [runs EXCEPT ![r] =
                     [@ EXCEPT !.pc = "discovering", !.resume = FALSE]]
                /\ progress' = progress
                /\ log_out' = <<>>
    /\ reply' = NoReply
    /\ UNCHANGED <<variant, discovery, writers, images, pure, medicines, nextRun, hashSeed, kills, stops, stopMark>>

\* discover_medicine_urls returns; an empty list ends the run with an
\* error log and a bare return, a non-empty one writes the progress row
\* and enters the loop.
DiscoverFrom(r, lists) ==
    /\ runs[r].pc = "discovering"
    /\ MayStep(r)
    /\ \E list \in lists :
         IF Len(list) = 0
         THEN /\ runs' = [runs EXCEPT ![r] = Ended(@, "done")]
              /\ progress' = progress
              /\ log_out' = <<LogEntry("db", "ERROR", "no_urls_found", NULL)>>
              /\ scraper_running' = FlagAfterReturn
         ELSE /\ runs' = [runs EXCEPT ![r] =
                   [@ EXCEPT !.pc = "fetching", !.urls = list, !.first = 0,
                             !.idx = 0, !.processed = 0]]
              /\ progress' = update_progress(progress, 1, TotalPages(variant),
                                             0, Len(list), "running")
              /\ log_out' = <<>>
              /\ scraper_running' = scraper_running
    /\ reply' = NoReply
    /\ UNCHANGED <<variant, discovery, writers, images, pure, medicines, nextRun, hashSeed, kills, stops, stopMark>>

\* The site lists every product once.
DiscoverDone(r) == DiscoverFrom(r, DiscoverResults(variant))
\* The site lists a product under two categories.
DiscoverListings(r) == DiscoverFrom(r, ListingResults(variant))

\* An exception that escapes to the outer except clause: log it, write
\* update_progress(0, 0, 0, 0, "failed"), return.
SetupError(r) ==
    /\ runs[r].pc = "discovering"
    /\ MayStep(r)
    /\ runs' = [runs EXCEPT ![r] = Ended(@, "done")]
    /\ progress' = update_progress(progress, 0, 0, 0, 0, "failed")
    /\ log_out' = <<LogEntry("db", "ERROR", "error_in_scrape_all", NULL)>>
    /\ scraper_running' = FlagAfterReturn
    /\ reply' = NoReply
    /\ UNCHANGED <<variant, discovery, writers, images, pure, medicines, nextRun, hashSeed, kills, stops, stopMark>>

\* ------------------------------------------------------------ loop tail
\* if success: processed_items += 1
AlwaysCount(processed, success) == processed + 1
CountProcessed(processed, success) ==
    IF success THEN processed + 1 ELSE processed

\* The checkpoint the loop writes after item idx.
StaleCursor(urls, idx, processed) ==
    [medicine_urls |-> urls, current_index |-> idx,
     processed_items |-> processed]
Checkpoint(urls, idx, processed) ==
    [medicine_urls |-> urls, current_index |-> idx + 1,
     processed_items |-> processed]

\* The tail of the loop body after scrape_medicine_page returned:
\* update_progress(1, total_pages, processed_items, total_items), then
\* save_resume_data(resume_data).
TailProgress(tbl, run, n) ==
    save_resume_data(
        update_progress(tbl, 1, TotalPages(variant), n, Len(run.urls), "running"),
        Checkpoint(run.urls, run.idx, n))

\* The for loop advances to the next item.
SkipsItem(run, n) ==
    [run EXCEPT !.pc = "fetching", !.idx = @ + 2, !.processed = n,
                !.success = FALSE, !.item = NoItem]
NextItem(run, n) ==
    [run EXCEPT !.pc = "fetching", !.idx = @ + 1, !.processed = n,
                !.success = FALSE, !.item = NoItem]

\* history: one more item of the call ended without a commit.
Skip(run) == [run EXCEPT !.skipped = @ + 1]

\* ------------------------------------------------- scrape_medicine_page
Entry(r) == runs[r].urls[runs[r].idx + 1]

\* No name on the page: MedEasy logs a WARNING event and returns False after
\* extraction; MedEx returns False with a loguru warning only.
SilentDiscard(v, u) == <<>>
NoNameLog(v, u) ==
    IF v = "medex" THEN <<LogEntry("file", "WARNING", "no_name", u)>>
    ELSE <<LogEntry("db", "WARNING", "no_name", u)>>

\* The fetch returns nothing: scrape_medicine_page returns False and the
\* loop tail runs.
FetchFails(r) ==
    /\ runs[r].pc = "fetching" /\ runs[r].idx < Total(r)
    /\ MayStep(r)
    /\ LET n == CountProcessed(runs[r].processed, FALSE)
       IN  /\ runs' = [runs EXCEPT ![r] = NextItem(Skip(@), n)]
           /\ progress' = TailProgress(progress, runs[r], n)
    /\ log_out' = <<LogEntry("file", "WARNING", "fetch_failed", Entry(r).url)>>
    /\ reply' = NoReply
    /\ UNCHANGED <<variant, discovery, writers, images, pure, medicines, nextRun, scraper_running,
                   hashSeed, kills, stops, stopMark>>

\* process_medicine_image returns None when the download or the
\* conversion fails; scrape_medicine_page logs a warning and goes on
\* without image data.  The line is part of the log of the step in which
\* scrape_medicine_page returns.
ImageLog(d) ==
    IF d.image_url /\ d.image_data = NULL
    THEN <<LogEntry("file", "WARNING", "image_failed", d.url)>> ELSE <<>>

\* The page arrives and is extracted.  Without a name scrape_medicine_page
\* returns False and the loop tail runs; with a name save_medicine_to_db
\* opens its session and looks the product code up.
FetchExtractFrom(r, pages) ==
    /\ runs[r].pc = "fetching" /\ runs[r].idx < Total(r)
    /\ MayStep(r)
    /\ \E page \in pages :
         LET d == extract_medicine_data(variant, hashSeed, Entry(r), page)
             n == CountProcessed(runs[r].processed, FALSE)
         IN  IF d.name = NULL
             THEN /\ runs' = [runs EXCEPT ![r] = NextItem(Skip(@), n)]
                  /\ progress' = TailProgress(progress, runs[r], n)
                  /\ log_out' = NoNameLog(variant, d.url)
             ELSE /\ runs' = [runs EXCEPT ![r] =
                       [@ EXCEPT !.pc = "saving",
                                 !.item = [url |-> d.url, name |-> d.name,
                                           price |-> d.price,
                                           category_id |-> d.category_id,
                                           product_code |-> d.product_code,
                                           existing |-> FindByCode(medicines, d.product_code),
                                           image_url |-> page.image_url,
                                           image_data |-> page.image_data]]]
                  /\ progress' = progress
                  /\ log_out' = <<>>
    /\ reply' = NoReply
    /\ UNCHANGED <<variant, discovery, writers, images, pure, medicines, nextRun, scraper_running,
                   hashSeed, kills, stops, stopMark>>

\* The pages of a site that serves no product images.
FetchExtract(r) == FetchExtractFrom(r, Pages(variant))
\* The pages of a site with product images.
FetchExtractImage(r) == FetchExtractFrom(r, PagesWithImage(variant))

\* An exception in the loop body outside scrape_medicine_page: the inner
\* except clause logs it and the for loop takes the next item; nothing is
\* written to the progress row.
LoopBodyRaises(r) ==
    /\ runs[r].pc = "fetching" /\ runs[r].idx < Total(r)
    /\ MayStep(r)
    /\ runs' = [runs EXCEPT ![r] = Skip([@ EXCEPT !.idx = @ + 1])]
    /\ log_out' = <<LogEntry("db", "ERROR", "error_processing", Entry(r).url)>>
    /\ reply' = NoReply
    /\ UNCHANGED <<variant, discovery, writers, images, pure, progress, medicines, nextRun, scraper_running,
                   hashSeed, kills, stops, stopMark>>

\* -------------------------------------------------- save_medicine_to_db
\* The table after the write of save_medicine_to_db, given the row id the
\* lookup returned.
Upsert(tbl, d) ==
    IF d.existing # NULL
    THEN {IF m.id = d.existing THEN UpdateRow(m, d) ELSE m : m \in tbl}
    ELSE tbl \cup {InsertRow(tbl, d)}

\* Any exception (a storage error, the unique constraint at the flush of
\* an insert) rolls back and makes save_medicine_to_db return False.
FailsWithoutImage(tbl, d, dberr) ==
    dberr \/ (d.image_url /\ d.image_data = NULL)
SaveFails(tbl, d, dberr) ==
    dberr \/ (d.existing = NULL /\ UniqueViolation(tbl, d.product_code))

\* The ERROR event of save_medicine_to_db carries the text of the exception.
SaveLog(d, dberr, fails) ==
    IF fails
    THEN <<LogEntry("db", "ERROR",
                    IF dberr THEN "error_saving_storage" ELSE "error_saving_integrity",
                    NULL),
           LogEntry("db", "ERROR", "failed_to_save", d.url)>>
    ELSE IF d.existing # NULL
         THEN <<LogEntry("file", "INFO", "updated_existing", d.url)>>
         ELSE <<LogEntry("file", "INFO", "added_new", d.url)>>

\* The id of the product row the image row hangs on: the row found, or
\* the row just flushed.
MedicineId(tbl, d) == IF d.existing # NULL THEN d.existing ELSE Cardinality(tbl) + 1

\* The image block runs when image data was passed; its own try / except
\* logs an exception of the image write and lets the product save go on.
ImageErrors(d, dberr) ==
    IF d.image_data # NULL /\ ~dberr THEN BOOLEAN ELSE {FALSE}

\* The medicine_images table after save_medicine_to_db.
SaveImage(tbl, meds, d, fails, imgerr) ==
    IF fails \/ imgerr \/ d.image_data = NULL THEN tbl
    ELSE UpsertImage(tbl, MedicineId(meds, d), d.image_data)

ImageErrLog(d, imgerr) ==
    IF imgerr THEN <<LogEntry("file", "ERROR", "error_saving_image", d.url)>>
    ELSE <<>>

\* The INFO line of the image block of a save that committed.
ImageSavedLog(tbl, meds, d, fails, imgerr) ==
    IF fails \/ imgerr \/ d.image_data = NULL THEN <<>>
    ELSE IF FindImage(tbl, MedicineId(meds, d)) # NULL
         THEN <<LogEntry("file", "INFO", "updated_image", d.url)>>
         ELSE <<LogEntry("file", "INFO", "added_image", d.url)>>

\* The rest of save_medicine_to_db (update or insert, image block, commit
\* or rollback), the return of scrape_medicine_page and the loop tail.
SaveFinish(r) ==
    /\ runs[r].pc = "saving"
    /\ MayStep(r)
    /\ \E dberr \in BOOLEAN : \E imgerr \in ImageErrors(runs[r].item, dberr) :
         LET d == runs[r].item
             fails == SaveFails(medicines, d, dberr)
             n == CountProcessed(runs[r].processed, ~fails)
         IN  /\ medicines' = IF fails THEN medicines ELSE Upsert(medicines, d)
             /\ images' = SaveImage(images, medicines, d, fails, imgerr)
             /\ runs' = [runs EXCEPT ![r] =
                          NextItem(IF fails THEN Skip(@) ELSE @, n)]
             /\ progress' = TailProgress(progress, runs[r], n)
             /\ log_out' = ImageLog(d) \o ImageErrLog(d, imgerr)
                                \o ImageSavedLog(images, medicines, d, fails, imgerr)
                                \o SaveLog(d, dberr, fails)
    /\ reply' = NoReply
    /\ UNCHANGED <<variant, discovery, writers, pure, nextRun, scraper_running,
                   hashSeed, kills, stops, stopMark>>

\* The same in two steps, for the behaviours in which the process may die
\* between the commit of the product and the write of the checkpoint.
SaveCommit(r) ==
    /\ runs[r].pc = "saving"
    /\ MayStep(r)
    /\ \E dberr \in BOOLEAN : \E imgerr \in ImageErrors(runs[r].item, dberr) :
         LET d == runs[r].item
             fails == SaveFails(medicines, d, dberr)
         IN  /\ medicines' = IF fails THEN medicines ELSE Upsert(medicines, d)
             /\ images' = SaveImage(images, medicines, d, fails, imgerr)
             /\ runs' = [runs EXCEPT ![r] =
                  [(IF fails THEN Skip(@) ELSE @) EXCEPT
                       !.pc = "saved", !.success = ~fails, !.item = NoItem]]
             /\ log_out' = ImageLog(d) \o ImageErrLog(d, imgerr)
                                \o ImageSavedLog(images, medicines, d, fails, imgerr)
                                \o SaveLog(d, dberr, fails)
    /\ reply' = NoReply
    /\ UNCHANGED <<variant, discovery, writers, pure, progress, nextRun, scraper_running,
                   hashSeed, kills, stops, stopMark>>

FinishItem(r) ==
    /\ runs[r].pc = "saved"
    /\ MayStep(r)
    /\ LET n == CountProcessed(runs[r].processed, runs[r].success)
       IN  /\ runs' = [runs EXCEPT ![r] = NextItem(@, n)]
           /\ progress' = TailProgress(progress, runs[r], n)
    /\ log_out' = <<>>
    /\ reply' = NoReply
    /\ UNCHANGED <<variant, discovery, writers, images, pure, medicines, nextRun, scraper_running,
                   hashSeed, kills, stops, stopMark>>

\* The progress row after the loop: the counts of the run, "completed".
LeftRunning(tbl, processed, total) ==
    update_progress(tbl, IF variant = "medex" THEN MedexTotalPages ELSE 1,
                    TotalPages(variant), processed, total, "running")
FinalProgress(tbl, processed, total) ==
    update_progress(tbl, IF variant = "medex" THEN MedexTotalPages ELSE 1,
                    TotalPages(variant), processed, total, "completed")

\* The list is exhausted: update_progress(..., "completed"), log, return.
Complete(r) ==
    /\ runs[r].pc = "fetching" /\ runs[r].idx >= Total(r)
    /\ MayStep(r)
    /\ progress' = FinalProgress(progress, runs[r].processed, Total(r))
    /\ runs' = [runs EXCEPT ![r] = Ended(@, "done")]
    /\ log_out' = <<LogEntry("db", "INFO", "completed", NULL)>>
    /\ scraper_running' = FlagAfterReturn
    /\ reply' = NoReply
    /\ UNCHANGED <<variant, discovery, writers, images, pure, medicines, nextRun, hashSeed, kills, stops, stopMark>>

\* --------------------------------------------------------- text helpers
\* Texts are sequences of characters.  "H" stands for the characters
\* "pi.medeasy.health" (so "a", "H" is the MedEasy API host), and the words
\* of the examples ("https", "api.example.com", "img.jpg", "Tk" for the taka
\* sign) for their characters; none of them begins with a hexadecimal
\* digit or holds a digit, a comma, a dot or a percent sign that matters.
BoundedSeq(S, n) == UNION {[1..k -> S] : k \in 0..n}

HexDigits == {"2", "3", "5", "a", "A", "F"}

\* The character of a percent escape; a byte above 0x7F that is no part of
\* a UTF-8 sequence becomes U+FFFD ("<?>"), which is all that the escapes
\* of the texts considered here can give.
Decoded(x, y) ==
    CASE x = "2" /\ y = "2" -> "\""
      [] x = "2" /\ y = "3" -> "#"
      [] x = "2" /\ y = "5" -> "%"
      [] x = "2" /\ y \in {"a", "A"} -> "*"
      [] x = "2" /\ y = "F" -> "/"
      [] x = "3" /\ y \in {"2", "3", "5"} -> y
      [] x = "3" /\ y \in {"a", "A"} -> ":"
      [] x = "3" /\ y = "F" -> "?"
      [] x = "5" /\ y = "2" -> "R"
      [] x = "5" /\ y = "3" -> "S"
      [] x = "5" /\ y = "5" -> "U"
      [] x = "5" /\ y \in {"a", "A"} -> "Z"
      [] x = "5" /\ y = "F" -> "_"
      [] OTHER -> "<?>"

\* urllib.parse.unquote: one pass, every %XX with two hexadecimal digits is
\* replaced, anything else is kept.
RECURSIVE unquote(_)
unquote(s) ==
    IF s = <<>> THEN <<>>
    ELSE IF s[1] = "%" /\ Len(s) >= 3 /\ s[2] \in HexDigits /\ s[3] \in HexDigits
         THEN <<Decoded(s[2], s[3])>> \o unquote(SubSeq(s, 4, Len(s)))
         ELSE <<s[1]>> \o unquote(Tail(s))

\* The percent-encoding of a URL as a query value: every reserved character
\* is escaped.
RECURSIVE quote(_)
quote(s) ==
    IF s = <<>> THEN <<>>
    ELSE (CASE s[1] = "/" -> <<"%", "2", "F">>
            [] s[1] = "%" -> <<"%", "2", "5">>
            [] s[1] = ":" -> <<"%", "3", "A">>
            [] OTHER -> <<s[1]>>) \o quote(Tail(s))

\* 'api.medeasy.health' in original_url
HasApiHost(s) == \E i \in 1..(Len(s) - 1) : s[i] = "a" /\ s[i + 1] = "H"

\* parse_qs(urlparse(src).query)['url'][0] of the src
\* /_next/image?url=<value>&w=<n>: the value, percent-decoded; a blank
\* value is dropped and the key is missing.
QueryUrl(value) == unquote(value)

\* __extract_nextjs_image_url of a src whose url parameter is value.
_extract_nextjs_image_url(value) ==
    IF QueryUrl(value) = <<>> THEN None
    ELSE LET original_url == unquote(QueryUrl(value))
         IN  IF HasApiHost(original_url) THEN Some(original_url) ELSE None

\* price_text.replace(',', '')
KeepCommas(text) == text
StripCommas(text) == SelectSeq(text, LAMBDA c : c # ",")

Digits == {"0", "1", "2", "5"}
DigitValue(c) == CASE c = "0" -> 0 [] c = "1" -> 1 [] c = "2" -> 2 [] c = "5" -> 5

\* The last position of the run of characters of set S that starts at
\* position i (i - 1 when s[i] is not in S).
RECURSIVE RunEnd(_, _, _)
RunEnd(s, i, S) ==
    IF i <= Len(s) /\ s[i] \in S THEN RunEnd(s, i + 1, S) ELSE i - 1

NoMatch == <<"no match">>

\* re.search(r'[\d,]+\.?\d*', s): the leftmost match, each part greedy.
PriceMatch(s) ==
    LET class == Digits \cup {","}
        starts == {i \in 1..Len(s) : s[i] \in class}
    IN  IF starts = {} THEN NoMatch
        ELSE LET i == CHOOSE x \in starts : \A y \in starts : x <= y
                 j == RunEnd(s, i, class)
                 d == IF j < Len(s) /\ s[j + 1] = "." THEN j + 1 ELSE j
                 k == RunEnd(s, d + 1, Digits)
             IN  SubSeq(s, i, k)

RECURSIVE ToNat(_)
ToNat(ds) ==
    IF ds = <<>> THEN 0 ELSE 10 * ToNat(SubSeq(ds, 1, Len(ds) - 1)) + DigitValue(ds[Len(ds)])

\* A float as <<m, e>>, the number m / 10^e with the least e.
RECURSIVE Normal(_, _)
Normal(m, e) ==
    IF m = 0 THEN <<0, 0>>
    ELSE IF e > 0 /\ m % 10 = 0 THEN Normal(m \div 10, e - 1) ELSE <<m, e>>

\* float(text) of digits with at most one dot after the first digit;
\* ValueError (None after the except clause) for a text with a comma.
Float(m) ==
    IF \E i \in DOMAIN m : m[i] = "," THEN None
    ELSE LET dots == {i \in DOMAIN m : m[i] = "."}
             e == IF dots = {} THEN 0 ELSE Len(m) - (CHOOSE i \in dots : TRUE)
         IN  Some(Normal(ToNat(SelectSeq(m, LAMBDA c : c # ".")), e))

extract_price(price_text) ==
    IF price_text = <<>> THEN None
    ELSE LET price_match == PriceMatch(StripCommas(price_text))
         IN  IF price_match = NoMatch THEN None ELSE Float(price_match)

\* ------------------------------------------------------------------ spec
Next ==
    \/ \E resume \in BOOLEAN : StartCrawl(resume)
    \/ StopScraping
    \/ StopScraper
    \/ \E r \in RunIds : Begin(r)
    \/ \E r \in RunIds : DiscoverDone(r)
    \/ \E r \in RunIds : SetupError(r)
    \/ \E r \in RunIds : FetchFails(r)
    \/ \E r \in RunIds : FetchExtract(r)
    \/ \E r \in RunIds : LoopBodyRaises(r)
    \/ \E r \in RunIds : SaveFinish(r)
    \/ \E r \in RunIds : Complete(r)

\* The API process with its crawl runs.
Spec == Init /\ [][Next]_vars

NextRestart ==
    \/ \E resume \in BOOLEAN : RunScript(resume)
    \/ Kill
    \/ \E r \in RunIds : Begin(r)
    \/ \E r \in RunIds : DiscoverDone(r)
    \/ \E r \in RunIds : SetupError(r)
    \/ \E r \in RunIds : FetchFails(r)
    \/ \E r \in RunIds : FetchExtract(r)
    \/ \E r \in RunIds : LoopBodyRaises(r)
    \/ \E r \in RunIds : SaveCommit(r)
    \/ \E r \in RunIds : FinishItem(r)
    \/ \E r \in RunIds : Complete(r)

\* A crawl launched from the command line, killed and relaunched.
SpecRestart == Init /\ [][NextRestart]_vars

NextApiRestart ==
    \/ \E resume \in BOOLEAN : StartCrawl(resume)
    \/ Kill
    \/ \E r \in RunIds : Begin(r)
    \/ \E r \in RunIds : DiscoverDone(r)
    \/ \E r \in RunIds : SetupError(r)
    \/ \E r \in RunIds : FetchFails(r)
    \/ \E r \in RunIds : FetchExtract(r)
    \/ \E r \in RunIds : LoopBodyRaises(r)
    \/ \E r \in RunIds : SaveFinish(r)
    \/ \E r \in RunIds : Complete(r)

\* The API process with its crawl runs, killed and started again; the
\* clients call start only.
SpecApiRestart == Init /\ [][NextApiRestart]_vars

\* The first launch on an empty database.
RunOnce(resume) == nextRun = 0 /\ RunScript(resume)

NextItems ==
    \/ \E resume \in BOOLEAN : RunOnce(resume)
    \/ \E r \in RunIds : Begin(r)
    \/ \E r \in RunIds : DiscoverListings(r)
    \/ \E r \in RunIds : SetupError(r)
    \/ \E r \in RunIds : FetchFails(r)
    \/ \E r \in RunIds : FetchExtractImage(r)
    \/ \E r \in RunIds : LoopBodyRaises(r)
    \/ \E r \in RunIds : SaveFinish(r)
    \/ \E r \in RunIds : Complete(r)

\* One crawl launched from the command line, on a site with product images
\* that lists a product under two categories.
SpecItems == Init /\ [][NextItems]_vars

\* The URLs and the price texts the helpers are called with: every text up
\* to the bound, and the examples of the specification.
UrlChars == {"a", "H", "/", "%", "2", "5"}
ExampleUrl == <<"https", ":", "/", "/", "api.example.com", "/", "img.jpg">>
ImageUrls == BoundedSeq(UrlChars, MaxUrlLen) \cup {ExampleUrl}

TextChars == {"0", "1", ",", ".", "N", " "}
ExampleTaka == <<"Tk", " ", "1", ",", "2", "5", "0", ".", "5", "0">>
ExampleNA == <<"P", "r", "i", "c", "e", ":", " ", "N", "/", "A">>
PriceTexts == BoundedSeq(TextChars, MaxTextLen) \cup {ExampleTaka, ExampleNA}

\* ----------------------------------------- discover_medicine_urls (live)
\* if page > 50: break
PageCap == 50
LateLimit(page) == page > PageCap + 1
SafetyLimit(page) == page > PageCap

\* What a fetched listing page shows: nothing (fetch failed), no product
\* links, links and no next-page affordance, links and a next-page
\* affordance.
Listings == {"failed", "nolinks", "last", "more"}

\* for category_slug in self.category_urls: the loop takes the next
\* category, or discovery returns the list.
NextCategory(d) ==
    IF d.cat < NumCategories
    THEN [pc |-> "fetch", cat |-> d.cat + 1, page |-> 1, fetched |-> 0]
    ELSE [pc |-> "returned", cat |-> d.cat, page |-> d.page, fetched |-> d.fetched]

InitDiscover ==
    /\ variant = "medeasy"
    /\ progress = <<>>
    /\ medicines = {}
    /\ runs = [r \in RunIds |-> IdleRun]
    /\ nextRun = 0
    /\ scraper_running = FALSE
    /\ hashSeed = 0
    /\ kills = 0
    /\ reply = NoReply
    /\ log_out = <<>>
    /\ stops = 0
    /\ stopMark = NoStop
    /\ images = {}
    /\ pure = NoCall
    /\ discovery = [pc |-> "fetch", cat |-> 1, page |-> 1, fetched |-> 0]
    /\ writers = NoWriters

\* One pass of the while loop: fetch the listing page, collect its links,
\* look for a next page, count the page up and test the safety limit.
\* fetched is history: the listing pages fetched for the category.
FetchListing ==
    /\ discovery.pc = "fetch"
    /\ \E shown \in Listings :
         LET d == [discovery EXCEPT !.fetched = @ + 1]
         IN  discovery' =
               IF shown # "more" THEN NextCategory(d)
               ELSE IF SafetyLimit(d.page + 1)
                    THEN NextCategory([d EXCEPT !.page = @ + 1])
                    ELSE [d EXCEPT !.page = @ + 1]
    /\ UNCHANGED <<variant, writers, progress, medicines, runs, nextRun, scraper_running,
                   hashSeed, kills, reply, log_out, stops, stopMark, images, pure>>

\* An exception inside the loops (the fetch raises): the except clause of
\* discover_medicine_urls logs it and returns [].
DiscoveryRaises ==
    /\ discovery.pc = "fetch"
    /\ discovery' = [discovery EXCEPT !.pc = "returned"]
    /\ UNCHANGED <<variant, writers, progress, medicines, runs, nextRun, scraper_running,
                   hashSeed, kills, reply, log_out, stops, stopMark, images, pure>>

NextDiscover == FetchListing \/ DiscoveryRaises

\* discover_medicine_urls of the MedEasy scraper on its own.
SpecDiscover == InitDiscover /\ [][NextDiscover]_vars

\* Every fetch returns or fails: a pass of the loop that can be made is
\* made.
SpecDiscoverFair == SpecDiscover /\ WF_vars(NextDiscover)

\* ------------------------------------------------------------ page fetch
\* Config.MAX_RETRIES, the stop_max_attempt_number of the retry decorator.
MAX_RETRIES == 3

Fetchers == {"fetch_page_async", "fetch_page_sync", "fetch_page_with_selenium"}

\* What the site does at each attempt: a 200 response, another status, or
\* an exception (timeout, connection reset).
Outcomes == {"ok", "status", "exc"}
FetchOutcomes == [1..(MAX_RETRIES + 1) -> Outcomes]

\* Whether the retry decorator makes another attempt after a failed one.
\* It retries when the decorated call raises: fetch_page_sync raises its
\* exceptions and returns None for a status; the call of the coroutine
\* function fetch_page_async only builds the coroutine and never raises, so
\* the decorator returns after one call and the exception surfaces at the
\* await of the caller; fetch_page_with_selenium has no decorator.
RetriesOn(how, outcome) == how = "fetch_page_sync" /\ outcome = "exc"

\* The attempts made and what the caller gets: the content, None, or the
\* exception.
RECURSIVE Attempt(_, _, _)
Attempt(how, outs, n) ==
    IF outs[n] = "ok" THEN [attempts |-> n, result |-> "content"]
    ELSE IF RetriesOn(how, outs[n]) /\ n < MAX_RETRIES
         THEN Attempt(how, outs, n + 1)
         ELSE [attempts |-> n,
               result |-> IF outs[n] = "exc" /\ how # "fetch_page_with_selenium"
                          THEN "raised" ELSE "none"]

fetch_page(how, outs) == Attempt(how, outs, 1)

InitPure ==
    /\ variant = "medeasy"
    /\ progress = <<>>
    /\ medicines = {}
    /\ runs = [r \in RunIds |-> IdleRun]
    /\ nextRun = 0
    /\ scraper_running = FALSE
    /\ hashSeed = 0
    /\ kills = 0
    /\ reply = NoReply
    /\ log_out = <<>>
    /\ stops = 0
    /\ stopMark = NoStop
    /\ images = {}
    /\ discovery = NoDiscovery
    /\ writers = NoWriters
    /\ \E arg \in ImageUrls \cup PriceTexts \cup FetchOutcomes :
         pure = [fn |-> "none", arg |-> arg, ret |-> None]

\* extract_image_url meets an img whose src is /_next/image?url=<the
\* percent-encoded URL>&w=<n>.
ResolveNextImage ==
    /\ pure.fn = "none" /\ pure.arg \in ImageUrls
    /\ pure' = [fn |-> "_extract_nextjs_image_url", arg |-> pure.arg,
                ret |-> _extract_nextjs_image_url(quote(pure.arg))]
    /\ UNCHANGED <<variant, discovery, writers, progress, medicines, runs, nextRun, scraper_running,
                   hashSeed, kills, reply, log_out, stops, stopMark, images>>

\* extract_medicine_data passes the text of the price element.
ExtractPrice ==
    /\ pure.fn = "none" /\ pure.arg \in PriceTexts
    /\ pure' = [fn |-> "extract_price", arg |-> pure.arg,
                ret |-> extract_price(pure.arg)]
    /\ UNCHANGED <<variant, discovery, writers, progress, medicines, runs, nextRun, scraper_running,
                   hashSeed, kills, reply, log_out, stops, stopMark, images>>

\* One page fetch by one of the fetchers, the site behaving as pure.arg
\* says.
FetchPage ==
    /\ pure.fn = "none" /\ pure.arg \in FetchOutcomes
    /\ \E how \in Fetchers :
         pure' = [fn |-> how, arg |-> pure.arg,
                  ret |-> Some(fetch_page(how, pure.arg))]
    /\ UNCHANGED <<variant, discovery, writers, progress, medicines, runs, nextRun, scraper_running,
                   hashSeed, kills, reply, log_out, stops, stopMark, images>>

NextPure == ResolveNextImage \/ ExtractPrice \/ FetchPage

\* One call of a text helper on one input.
SpecPure == InitPure /\ [][NextPure]_vars

\* ------------------------------------------------ writers of the progress row
\* update_progress and save_resume_data each open a session, query the
\* first row of the task, add a row when the query found none, assign the
\* columns and commit.  Two runs of the task (a thread left running by a
\* stop and the thread of the next start, or a script beside the API) are
\* two sessions, and the database orders their queries and commits freely;
\* task_name carries an index but no unique constraint.
MaxCalls == 2
ProgressOps == {"update_progress", "save_resume_data"}
Statuses == {"running", "completed"}

InitWriters ==
    /\ variant \in Variants
    /\ progress = <<>>
    /\ medicines = {}
    /\ runs = [r \in RunIds |-> IdleRun]
    /\ nextRun = 0
    /\ scraper_running = FALSE
    /\ hashSeed = 0
    /\ kills = 0
    /\ reply = NoReply
    /\ log_out = <<>>
    /\ stops = 0
    /\ stopMark = NoStop
    /\ images = {}
    /\ pure = NoCall
    /\ discovery = NoDiscovery
    /\ writers = NoWriters

\* progress = db.query(ScrapingProgress).filter_by(task_name=...).first()
QueryProgress(w) ==
    /\ writers[w].pc = "idle"
    /\ writers[w].calls < MaxCalls
    /\ \E op \in ProgressOps :
         writers' = [writers EXCEPT ![w] = [@ EXCEPT !.pc = "queried", !.op = op,
                                                     !.found = HasRow]]
    /\ UNCHANGED <<variant, discovery, progress, medicines, runs, nextRun,
                   scraper_running, hashSeed, kills, reply, log_out, stops,
                   stopMark, images, pure>>

\* The columns the call assigns to the row it holds.
Assigned(tbl, op, pi, st) ==
    IF op = "update_progress"
    THEN update_progress(tbl, 1, TotalPages(variant), pi, NumUrls, st)
    ELSE save_resume_data(tbl, [medicine_urls |-> <<>>, current_index |-> pi,
                                processed_items |-> pi])

\* db.add(progress) when the query found no row, the assignments, db.commit().
AddsRow(found) == ~found
CommitProgress(w) ==
    /\ writers[w].pc = "queried"
    /\ \E pi \in 0..1, st \in Statuses :
         progress' = IF AddsRow(writers[w].found)
                     THEN progress \o Assigned(<<>>, writers[w].op, pi, st)
                     ELSE Assigned(progress, writers[w].op, pi, st)
    /\ writers' = [writers EXCEPT ![w] = [@ EXCEPT !.pc = "idle", !.calls = @ + 1]]
    /\ UNCHANGED <<variant, discovery, medicines, runs, nextRun,
                   scraper_running, hashSeed, kills, reply, log_out, stops,
                   stopMark, images, pure>>

\* The commit raises (a locked database, a lost connection): the except
\* branch logs it and the call returns with nothing written.
CommitRaises(w) ==
    /\ writers[w].pc = "queried"
    /\ writers' = [writers EXCEPT ![w] = [@ EXCEPT !.pc = "idle", !.calls = @ + 1]]
    /\ UNCHANGED <<variant, discovery, progress, medicines, runs, nextRun,
                   scraper_running, hashSeed, kills, reply, log_out, stops,
                   stopMark, images, pure>>

NextWriters ==
    \E w \in RunIds : QueryProgress(w) \/ CommitProgress(w) \/ CommitRaises(w)

SpecWriters == InitWriters /\ [][NextWriters]_vars

\* A step of the launched run.
RunStep ==
    \E r \in RunIds :
      \/ Begin(r) \/ DiscoverListings(r) \/ SetupError(r) \/ FetchFails(r)
      \/ FetchExtractImage(r) \/ LoopBodyRaises(r) \/ SaveFinish(r) \/ Complete(r)

\* Every fetch and every database call returns or fails: a run that can
\* take a step takes one.
SpecItemsFair == SpecItems /\ WF_vars(RunStep)

TypeOK ==
    /\ variant \in Variants
    /\ Len(progress) <= 1
    /\ nextRun \in 0..MaxRuns
    /\ \A r \in RunIds : runs[r].idx \in 0..(NumUrls + 1)
    /\ stops \in 0..MaxStops
    /\ kills \in 0..MaxKills

\* =============================================================== properties
InFlightRuns == {r \in RunIds : InFlight(r)}
LogMsgs(lg) == {lg[i].msg : i \in DOMAIN lg}
Terminal == {"completed", "failed", "stopped"}

\* C1: under every interleaving of start, stop and crawl steps at most one
\* crawl run of the task is in flight.
C1_AtMostOneRunInFlight == Cardinality(InFlightRuns) <= 1

\* C2: a start call made while the stored status is "running" (MedEx: while
\* the running flag is set) is answered with a rejection and creates no run.
C2_StartRejectedWhileRunning ==
    [][ ( /\ reply'.op = "start"
          /\ \/ variant = "medex" /\ scraper_running
             \/ variant # "medex" /\ HasRow /\ FirstRow.status = "running" )
        => ( reply'.code \in {400, 500} /\ nextRun' = nextRun /\ runs' = runs
             /\ progress' = progress ) ]_vars

C2_Witness ==
    /\ reply.op = "start" /\ reply.code \in {400, 500}
    /\ \E r \in RunIds : InLoop(r)

\* C3: a run killed after the checkpoint for item N was written and restarted
\* with resume=true starts at item N+1 and ends with the product rows of a
\* run that was never killed: one row for every URL that was saved.
C3_ResumeAfterKill ==
    ( /\ nextRun = 2 /\ kills = 1
      /\ runs[1].pc = "killed" /\ runs[1].ckpt >= 1
      /\ runs[2].pc = "done" /\ runs[2].first >= 1 )
    => ( /\ runs[2].first = runs[1].ckpt
         /\ Status = "completed"
         /\ Cardinality(medicines) = Cardinality({m.url : m \in medicines}) )

\* C4: no two product rows share a product code, and an upsert whose product
\* code is already stored inserts nothing; when it succeeds it has changed
\* the stored row.
UniqueCodes(tbl) ==
    \A m1, m2 \in tbl : m1.product_code = m2.product_code => m1 = m2

C4_OneRowPerProductCode ==
    [][ /\ UniqueCodes(medicines')
        /\ \A r \in RunIds :
             ( /\ runs[r].pc = "saving" /\ runs'[r].pc # "saving"
               /\ \E m \in medicines : m.product_code = runs[r].item.product_code )
             => ( /\ Cardinality(medicines') = Cardinality(medicines)
                  /\ {m.id : m \in medicines'} = {m.id : m \in medicines}
                  /\ "added_new" \notin LogMsgs(log_out')
                  /\ "updated_existing" \in LogMsgs(log_out')
                       => \E m \in medicines' :
                            /\ m.product_code = runs[r].item.product_code
                            /\ m.name = runs[r].item.name
                            /\ m.url = runs[r].item.url ) ]_vars

C4_Witness ==
    /\ "error_saving_integrity" \in LogMsgs(log_out)
    /\ medicines # {}

\* A save step of run r that committed.
SavedOk(r) ==
    /\ runs[r].pc = "saving" /\ runs'[r].pc # "saving"
    /\ LogMsgs(log_out') \cap {"added_new", "updated_existing"} # {}

C6_StopKeepsCheckpoint ==
    [][ /\ stopMark' = "acked" => Status' = "stopped"
        /\ stopMark' # "rejected"
        /\ ( \/ stopMark = "acked"
             \/ stopMark = "accepted" /\ runs[nextRun].pc = "scheduled" )
           => ResumeData' = ResumeData
        /\ ( /\ stopMark = "accepted"
             /\ runs[nextRun].pc = "scheduled" /\ runs'[nextRun].pc = "fetching" )
           => runs'[nextRun].first = ResumeData.current_index ]_vars

\* C7: once a stop is acknowledged no step puts a crawl loop at the fetch of
\* a work-list item, until a later start is accepted.
C7_NoItemStartedAfterStop ==
    [][ ( stopMark = "acked" /\ stopMark' = "acked" )
        => \A r \in RunIds :
             runs'[r] # runs[r]
             => ~( runs'[r].pc = "fetching" /\ runs'[r].idx < Len(runs'[r].urls) )
      ]_vars

\* C8: the stored status leaves completed, failed or stopped only when a
\* run scheduled by an explicit start enters its loop or fails its setup.
C8_TerminalLeftOnlyByStart ==
    [][ ( HasRow /\ Status \in Terminal /\ Status' # Status )
        => \E r \in RunIds : /\ runs[r].pc \in {"scheduled", "discovering"}
                             /\ runs'[r].pc \in {"fetching", "done"} ]_vars

\* C9: when discovery returns an empty work list the run sets the stored
\* status to "failed" before it returns.
C9_EmptyDiscoveryMarksFailed ==
    "no_urls_found" \in LogMsgs(log_out) => Status = "failed"

\* A step in which run r ends the handling of an item without a commit.
ItemFailed(r) ==
    /\ runs[r].pc \in {"fetching", "saving"} /\ runs[r].idx < Total(r)
    /\ runs'[r].pc \notin {"saving", "killed"}
    /\ runs'[r] # runs[r]
    /\ LogMsgs(log_out') \cap {"added_new", "updated_existing"} = {}

FailureLogged(lg, u) ==
    \E i \in DOMAIN lg : lg[i].level \in {"WARNING", "ERROR"} /\ lg[i].url = u

\* C10 as stated: a failed item is logged, the persisted checkpoint stays as
\* it was after the last successfully processed item, and the loop goes on
\* to the next item.
C10_FailedItemKeepsCheckpoint ==
    [][ \A r \in RunIds :
          ItemFailed(r)
          => ( /\ FailureLogged(log_out', Entry(r).url)
               /\ runs'[r].pc = "fetching" /\ runs'[r].idx = runs[r].idx + 1
               /\ ResumeData' = ResumeData ) ]_vars

\* C10 amended: a failed item is logged, the run stays in its loop at the
\* next item and its processed count is not incremented; the checkpoint
\* is either untouched (exception in the loop body) or rewritten with the
\* cursor past the failed item and the unchanged processed count.
C10_FailedItemAdvancesCursorOnly ==
    [][ \A r \in RunIds :
          ItemFailed(r)
          => ( /\ FailureLogged(log_out', Entry(r).url)
               /\ runs'[r].pc = "fetching" /\ runs'[r].idx = runs[r].idx + 1
               /\ runs'[r].processed = runs[r].processed
               /\ IF "error_processing" \in LogMsgs(log_out')
                  THEN progress' = progress
                  ELSE /\ ResumeData' = [medicine_urls |-> runs[r].urls,
                                         current_index |-> runs[r].idx + 1,
                                         processed_items |-> runs[r].processed]
                       /\ FirstRow'.processed_items = runs[r].processed
                       /\ FirstRow'.status = "running" ) ]_vars

C10_Witness ==
    /\ \E i \in DOMAIN log_out : log_out[i].level \in {"WARNING", "ERROR"}
                                 /\ log_out[i].url # NULL
    /\ \E r \in RunIds : /\ runs[r].pc = "fetching"
                         /\ runs[r].idx >= 1 /\ runs[r].idx < Total(r)
                         /\ runs[r].processed < runs[r].idx

\* The product row and the image row that save_medicine_to_db was called to
\* write for item d are both there.
ProductAndImage(meds, imgs, d) ==
    \E m \in meds :
      /\ m.product_code = d.product_code /\ m.name = d.name
      /\ \E i \in imgs : i.medicine_id = m.id /\ i.image_data = d.image_data

\* C11: save_medicine_to_db is all-or-nothing: a call that returns False
\* leaves the product rows and the image rows as they were; after a call
\* that returns True with image data both the product row and the image row
\* hold what the call was given.
C11_ProductAndImageTogether ==
    [][ \A r \in RunIds :
          ( runs[r].pc = "saving" /\ runs'[r].pc # "saving" )
          => /\ ~SavedOk(r) => ( medicines' = medicines /\ images' = images )
             /\ ( SavedOk(r) /\ runs[r].item.image_data # NULL )
                => ProductAndImage(medicines', images', runs[r].item) ]_vars

\* The product codes of a work list under the salt of the process.
ListCodes(urls) ==
    {ProductCode(variant, hashSeed, urls[i].url) : i \in DOMAIN urls}

\* C12: when a run that discovered its work list and committed every item of
\* it reaches the end of the list, the progress row has status "completed"
\* and processed_items = total_items = the length of the discovered list,
\* and when the product codes of the list are distinct there are as many
\* product rows with a code of the list as the list has entries.
C12_FullRunCompletes ==
    [][ \A r \in RunIds :
          ( /\ runs[r].pc = "fetching" /\ runs'[r].pc = "done"
            /\ runs[r].first = 0 /\ runs[r].skipped = 0 )
          => LET n == Len(runs[r].urls)
             IN  /\ Status' = "completed"
                 /\ FirstRow'.processed_items = n
                 /\ FirstRow'.total_items = n
                 /\ Cardinality(ListCodes(runs[r].urls)) = n
                    => Cardinality({m \in medicines' :
                          m.product_code \in ListCodes(runs[r].urls)}) = n ]_vars

C12_Witness ==
    /\ Status = "completed"
    /\ FirstRow.total_items = NumUrls /\ FirstRow.processed_items = NumUrls
    /\ Cardinality(medicines) = NumUrls
    /\ "completed" \in LogMsgs(log_out)

\* The listing categories of a URL in a work list.
ListedUnder(urls, u) == {urls[i].category_id : i \in {j \in DOMAIN urls : urls[j].url = u}}

\* C13: a committed save of a work-list entry leaves the product row of the
\* entry with the category id of that entry, whatever the page showed, also
\* when the URL is in the list under another category as well.
C13_RowHasListingCategory ==
    [][ \A r \in RunIds :
          SavedOk(r)
          => \A m \in medicines' :
               m.product_code = runs[r].item.product_code
               => /\ m.category_id = Entry(r).category_id
                  /\ m.category_id \in ListedUnder(runs[r].urls, Entry(r).url) ]_vars

\* The cross-listed product has been saved from its second entry.
C13_Witness ==
    /\ variant # "medex"
    /\ \E m \in medicines : m.url = 1 /\ m.category_id = NumCategories
    /\ "updated_existing" \in LogMsgs(log_out)

\* C14: a run started with resume=true that finds a checkpoint with a work
\* list enters the loop without discovery, with the list, the cursor and the
\* processed count of the checkpoint; a run started with resume=false, or
\* one that finds no checkpoint, goes to discovery and enters the loop at
\* cursor 0 with count 0; every checkpoint a run writes holds the list of that
\* run and nothing of the checkpoint stored before.
C14_ResumeFromCheckpoint ==
    [][ \A r \in RunIds :
          /\ ( runs[r].pc = "scheduled" /\ runs'[r].pc # "scheduled" )
             => IF runs[r].resume /\ ResumeData # NoResume
                THEN /\ runs'[r].pc = "fetching"
                     /\ runs'[r].urls = ResumeData.medicine_urls
                     /\ runs'[r].idx = ResumeData.current_index
                     /\ runs'[r].processed = ResumeData.processed_items
                     /\ FirstRow'.total_items = Len(ResumeData.medicine_urls)
                ELSE runs'[r].pc = "discovering"
          /\ ( runs[r].pc = "discovering" /\ runs'[r].pc = "fetching" )
             => ( /\ runs'[r].idx = 0 /\ runs'[r].processed = 0
                  /\ runs'[r].urls \in DiscoverResults(variant) )
          /\ ( /\ runs[r].pc \in {"fetching", "saving"}
               /\ runs'[r] # runs[r] /\ ResumeData' # ResumeData )
             => ResumeData' = Checkpoint(runs[r].urls, runs[r].idx,
                                         runs'[r].processed) ]_vars

\* A resumed run is in its loop at the cursor of a checkpoint that an
\* earlier run wrote.
C14_Witness ==
    \E r \in RunIds :
      /\ runs[r].pc = "fetching" /\ runs[r].first >= 1
      /\ runs[r].idx = runs[r].first
      /\ "resuming" \in LogMsgs(log_out)

\* C15: whenever the stored status is "failed" the error_message column of
\* the progress row holds the message of the error that caused it.
C15_FailedHasErrorMessage ==
    ( HasRow /\ Status = "failed" ) => FirstRow.error_message # NULL

\* A step in which scrape_medicine_page of run r fetched the page and
\* returned False without calling save_medicine_to_db: no name was found.
Discarded(r) ==
    /\ runs[r].pc = "fetching" /\ runs[r].idx < Total(r)
    /\ runs'[r].pc = "fetching" /\ runs'[r].idx = runs[r].idx + 1
    /\ LogMsgs(log_out') \cap {"fetch_failed", "error_processing"} = {}

\* The effects of a discard: no row changes, no count, a WARNING entry for
\* the URL in one of the sinks.
DiscardEffects(r, sinks) ==
    /\ medicines' = medicines /\ images' = images
    /\ runs'[r].processed = runs[r].processed
    /\ FirstRow'.processed_items = runs[r].processed
    /\ \E i \in DOMAIN log_out' :
         /\ log_out'[i].level = "WARNING" /\ log_out'[i].sink \in sinks
         /\ log_out'[i].msg = "no_name" /\ log_out'[i].url = Entry(r).url

\* A page with a name goes to the upsert whatever else it lacks, and the
\* upsert rejects it only for a storage error.
NamedPageSaved(r) ==
    ( runs[r].pc = "saving" /\ runs'[r].pc # "saving" )
    => ( /\ runs[r].item.name # NULL
         /\ \/ LogMsgs(log_out') \cap
                  {"error_saving_storage", "error_saving_integrity"} # {}
            \/ \E m \in medicines' :
                 /\ m.product_code = runs[r].item.product_code
                 /\ m.name = runs[r].item.name )

\* C16 as stated: a fetched page without a product name leaves the product
\* rows as they are, leaves processed_items as it is, and adds a WARNING
\* entry for the URL to the crawl log (scraping_logs); a page with a name
\* is saved whatever else it lacks.
C16_NoNameCrawlLogEntry ==
    [][ \A r \in RunIds :
          /\ Discarded(r) => DiscardEffects(r, {"db"})
          /\ NamedPageSaved(r) ]_vars

\* C16 amended: as above, but the warning is a crawl-log entry in the
\* MedEasy variants and a line of the log file only in MedEx.
C16_NoNameDiscarded ==
    [][ \A r \in RunIds :
          /\ Discarded(r)
             => DiscardEffects(r, IF variant = "medex" THEN {"file"} ELSE {"db"})
          /\ NamedPageSaved(r) ]_vars

\* A page without a name was discarded after a page with a name and no
\* price was saved.
C16_Witness ==
    /\ "no_name" \in LogMsgs(log_out)
    /\ \E m \in medicines : m.price = NULL
    /\ \E r \in RunIds : runs[r].pc = "fetching" /\ runs[r].processed = 1
                         /\ runs[r].idx = 2

\* C17: when an image URL was found and its download or decoding failed,
\* the save of the product changes no image row, and unless a storage
\* error or a duplicate product code makes the save fail the product row
\* is written and the item is counted.
C17_SavedWithoutImage ==
    [][ \A r \in RunIds :
          ( /\ runs[r].pc = "saving" /\ runs'[r].pc # "saving"
            /\ runs[r].item.image_url /\ runs[r].item.image_data = NULL )
          => /\ images' = images
             /\ \/ "error_saving_storage" \in LogMsgs(log_out')
                \/ /\ "error_saving_integrity" \in LogMsgs(log_out')
                   /\ \E m \in medicines :
                        m.product_code = runs[r].item.product_code
                \/ /\ \E m \in medicines' :
                         /\ m.product_code = runs[r].item.product_code
                         /\ m.name = runs[r].item.name
                   /\ runs'[r].processed = runs[r].processed + 1
                   /\ FirstRow'.processed_items = runs[r].processed + 1 ]_vars

\* The first item was saved after its image failed: a product row, no image
\* row, one item counted.
C17_Witness ==
    /\ {"image_failed", "added_new"} \subseteq LogMsgs(log_out)
    /\ Cardinality(medicines) = 1 /\ images = {}
    /\ \E r \in RunIds : /\ runs[r].pc = "fetching" /\ runs[r].idx = 1
                         /\ runs[r].processed = 1

\* C18: for a src /_next/image?url=<percent-encoded U>&w=<n> with a
\* non-empty U the resolver returns U.
C18_ResolverReturnsOriginal ==
    ( pure.fn = "_extract_nextjs_image_url" /\ pure.arg # <<>> )
    => pure.ret = Some(pure.arg)

\* The resolver accepted a URL of the MedEasy API host and returned
\* another text.
ResolverChangedUrl ==
    /\ pure.fn = "_extract_nextjs_image_url" /\ HasApiHost(pure.arg)
    /\ ~pure.ret.none /\ pure.ret.val # pure.arg

\* The number a text begins to spell after its first digit, the commas
\* taken out: digits, and after a dot that follows them, more digits.
FirstNumber(text) ==
    LET plain == SelectSeq(text, LAMBDA c : c # ",")
        first == CHOOSE i \in 1..Len(plain) :
                   /\ plain[i] \in Digits
                   /\ \A j \in 1..(i - 1) : plain[j] \notin Digits
        intEnd == RunEnd(plain, first, Digits)
        hasDot == intEnd < Len(plain) /\ plain[intEnd + 1] = "."
        fracEnd == IF hasDot THEN RunEnd(plain, intEnd + 2, Digits) ELSE intEnd
        frac == IF hasDot THEN SubSeq(plain, intEnd + 2, fracEnd) ELSE <<>>
    IN  Normal(ToNat(SubSeq(plain, first, intEnd) \o frac), Len(frac))

\* C19: extract_price returns None for a text without a digit (the empty
\* text included) and otherwise the number spelled by the first numeric
\* token of the text with its thousands separators removed; the taka
\* example gives 1250.5, "Price: N/A" gives None.
C19_FirstNumericToken ==
    pure.fn = "extract_price"
    => /\ IF \E i \in DOMAIN pure.arg : pure.arg[i] \in Digits
          THEN pure.ret = Some(FirstNumber(pure.arg))
          ELSE pure.ret = None
       /\ pure.arg = ExampleTaka => pure.ret = Some(<<12505, 1>>)
       /\ pure.arg = ExampleNA => pure.ret = None
       /\ pure.arg = <<>> => pure.ret = None

C19_Witness ==
    /\ pure.fn = "extract_price" /\ pure.arg = ExampleTaka
    /\ pure.ret = Some(<<12505, 1>>)

OkAttempts(outs) == {i \in 1..MAX_RETRIES : outs[i] = "ok"}

\* C21: a page fetch makes at most MAX_RETRIES attempts, goes on to another
\* attempt after every exception and every non-200 response until that cap,
\* so it returns the content when one of the first MAX_RETRIES attempts
\* succeeds, and only otherwise reports the failure to the caller.
C21_RetriedUntilCap ==
    pure.fn \in Fetchers
    => LET got == pure.ret.val
           oks == OkAttempts(pure.arg)
       IN  /\ got.attempts <= MAX_RETRIES
           /\ IF oks # {}
              THEN /\ got.result = "content"
                   /\ \A i \in oks : got.attempts <= i
              ELSE got.attempts = MAX_RETRIES /\ got.result # "content"

\* C22: an extraction of a URL yields the product code that every earlier
\* extraction of the URL yielded: the code of the item in hand is the code
\* of the row written from the same URL, in whatever process.
C22_SameUrlSameCode ==
    \A r \in RunIds : \A m \in medicines :
      ( runs[r].pc = "saving" /\ m.url = runs[r].item.url )
      => m.product_code = runs[r].item.product_code

\* C23: discovery fetches at most 50 listing pages for a category, leaves
\* a category only for the next one with its page counter at 1, and
\* returns, whatever the listing pages show.
C23_PageLoopCapped ==
    /\ [](discovery.fetched <= PageCap)
    /\ [][ discovery'.cat # discovery.cat
           => ( /\ discovery'.cat = discovery.cat + 1
                /\ discovery'.page = 1 /\ discovery'.fetched = 0 ) ]_vars
    /\ <>(discovery.pc = "returned")

\* The cap ended a category: 50 pages fetched, each with a next page.
C23_Witness ==
    /\ discovery.pc = "returned"
    /\ discovery.cat = NumCategories
    /\ discovery.fetched = PageCap /\ discovery.page = PageCap + 1

\* A step that completes the handling of the item at the cursor of run r.
ItemDone(r) ==
    /\ runs[r].pc \in {"fetching", "saving"} /\ runs[r].idx < Total(r)
    /\ runs'[r].pc # "saving" /\ runs'[r] # runs[r]

\* C24: a run that entered its loop leaves it: it ends with the stored
\* status "completed", however many items failed; while it is in the loop
\* its list stays the same and every item it is done with moves the cursor
\* to the next item of the list; and a write of "completed" is made only
\* by a run whose cursor is at the end of its list.
C24_LoopRunsToCompletion ==
    /\ \A r \in RunIds :
         [](InLoop(r) => <>(runs[r].pc = "done" /\ Status = "completed"))
    /\ [][ \A r \in RunIds :
             /\ ( InLoop(r) /\ InLoop(r)' )
                => ( /\ runs'[r].urls = runs[r].urls
                     /\ runs'[r].idx \in {runs[r].idx, runs[r].idx + 1}
                     /\ runs'[r].idx <= Len(runs[r].urls) )
             /\ ItemDone(r)
                => ( runs'[r].pc = "fetching" /\ runs'[r].idx = runs[r].idx + 1 )
          ]_vars
    /\ [][ ( Status' = "completed" /\ progress' # progress )
           => \E r \in RunIds :
                /\ runs[r].pc = "fetching" /\ runs[r].idx = Len(runs[r].urls)
                /\ runs'[r].pc = "done" ]_vars

\* A run ended "completed" although items of its list failed.
C24_Witness ==
    /\ Status = "completed" /\ "completed" \in LogMsgs(log_out)
    /\ FirstRow.total_items = NumUrls + 1
    /\ FirstRow.processed_items < NumUrls

\* A step of the API layer: a start or a stop call is answered.
ApiStep == reply' # reply \/ stops' # stops

\* C25: the calls of the API layer leave the progress table as it is;
\* only the steps of a crawl run write it.
C25_ApiLeavesProgress ==
    [][ ApiStep => progress' = progress ]_vars

\* C26: the progress table never holds more than one row of the task,
\* whatever the order of the writers' queries and commits.
C26_OneRowPerTask ==
    \A i, j \in 1..Len(progress) :
      progress[i].task_name = progress[j].task_name => i = j

\* The image rows of product id mid.
ImagesOf(tbl, mid) == {i \in tbl : i.medicine_id = mid}

\* C27: no product id ever has two image rows, and a save that carries
\* image data for a product that has an image row adds no image row: it
\* leaves the rows and their ids as they are and, when it commits the
\* image, puts the new data into the row of the product.
C27_OneImagePerProduct ==
    /\ [](\A i, j \in images : i.medicine_id = j.medicine_id => i = j)
    /\ [][ \A r \in RunIds :
             ( /\ runs[r].pc = "saving" /\ runs'[r].pc # "saving"
               /\ runs[r].item.image_data # NULL
               /\ runs[r].item.existing # NULL
               /\ ImagesOf(images, runs[r].item.existing) # {} )
             => /\ {i.id : i \in images'} = {i.id : i \in images}
                /\ Cardinality(images') = Cardinality(images)
                /\ "added_image" \notin LogMsgs(log_out')
                /\ "updated_image" \in LogMsgs(log_out')
                   => \A i \in ImagesOf(images', runs[r].item.existing) :
                        i.image_data = runs[r].item.image_data ]_vars

\* The image row of a product was overwritten by a second save.
C27_Witness ==
    /\ {"updated_image", "updated_existing"} \subseteq LogMsgs(log_out)
    /\ Cardinality(images) = 1 /\ Cardinality(medicines) >= 1
    /\ \A i \in images : i.image_data = MaxImage

\* C28: the stored checkpoint always has
\* 0 <= processed_items <= current_index <= Len(medicine_urls), and the step
\* that writes a checkpoint writes the length of its list as total_items of
\* the progress row, in runs that start from discovery and in runs that
\* start from a checkpoint.
C28_CheckpointInRange ==
    /\ []( ResumeData # NoResume
           => /\ 0 <= ResumeData.processed_items
              /\ ResumeData.processed_items <= ResumeData.current_index
              /\ ResumeData.current_index <= Len(ResumeData.medicine_urls) )
    /\ [][ ( ResumeData' # ResumeData )
           => ( /\ FirstRow'.total_items = Len(ResumeData'.medicine_urls)
                /\ FirstRow'.processed_items = ResumeData'.processed_items
                /\ \E r \in RunIds :
                     /\ runs[r].urls = ResumeData'.medicine_urls
                     /\ runs[r].idx + 1 = ResumeData'.current_index ) ]_vars

\* A run that started from a checkpoint has written the checkpoint of its
\* last item, with fewer items counted than visited.
C28_Witness ==
    /\ ResumeData # NoResume
    /\ ResumeData.current_index = Len(ResumeData.medicine_urls)
    /\ 0 < ResumeData.processed_items
    /\ ResumeData.processed_items < ResumeData.current_index
    /\ \E r \in RunIds : /\ runs[r].first > 0 /\ runs[r].pc = "fetching"
                         /\ runs[r].idx = ResumeData.current_index
                         /\ runs[r].urls = ResumeData.medicine_urls

\* C29: a start call that arrives when no run is in flight is accepted and
\* schedules a run, also after the process that ran the crawl was killed
\* and left the stored status "running".
C29_StartAcceptedWhenIdle ==
    [][ ( /\ reply' # reply /\ reply'.op = "start"
          /\ \A r \in RunIds : ~InFlight(r) )
        => ( /\ reply'.code = 200
             /\ nextRun' = nextRun + 1
             /\ runs'[nextRun'].pc = "scheduled" ) ]_vars

\* The call of run r starts (its first step) while the stored status is
\* "completed" and no other run is in flight.
BeginsAfterCompleted(r) ==
    /\ runs[r].pc = "scheduled" /\ runs'[r].pc # "scheduled"
    /\ Status = "completed"
    /\ \A o \in RunIds \ {r} : ~InFlight(o)

====
